---- MODULE Spec2Model ----
(***************************************************************************)
(* Sample preparation of the ScanNetV2 and S3DIS datasets of CamPoint:     *)
(* the scene store (self.datas), the training __getitem__ with its random  *)
(* augmentation and locality-preserving crop, and the deterministic test   *)
(* enumeration get_test_item.                                              *)
(*                                                                         *)
(* Numbers.  Lengths are integers in millimetres (0.02 m = 20), so that    *)
(* the grid cells, the scale factors (over ScaleDen) and the distortion    *)
(* parameters are exact.  Angles are tenths of pi; only the quarter turns  *)
(* are drawn, whose sine and cosine are integers.  Row indices are 0-based *)
(* as in the source; a tensor is a sequence of rows.                       *)
(***************************************************************************)
EXTENDS Integers, Sequences, FiniteSets, TLC

VARIABLES datas, loaded, cfg, out, ref, sweep, crop, threads, ctor, dist, rng

vars == <<datas, loaded, cfg, out, ref, sweep, crop, threads, ctor, dist, rng>>

----------------------------------------------------------------------------
(* Bounds of the model *)

\* largest voxel_max a dataset is configured with
MaxVoxelMax == 2
\* number of deterministic subsampling offsets P of the enumeration sweep
MaxOffsets == 2
\* offsets the training subsampling may settle on inside a cell
MaxTrainPick == 1

(* Program constants *)

\* denominator of the scale factors: 0.95 = 19/20, 0.8 = 16/20, 1.2 = 24/20
ScaleDen == 20
\* grid cell of ScanNetV2 (0.02 m) and of S3DIS (0.04 m), in mm
CellScanNet == 20
CellS3DIS == 40
\* the color divisor of col.mul_(1 / 250.)
ColorDiv == 250
\* the stretch target 255 of the contrast blend
ColorTop == 255
\* S3DIS' stride of the pick: idx % loop * 5
PickStride == 5
\* default loop of ScanNetV2
DefaultLoop == 6
\* standard deviation of the S3DIS jitter, 0.005 m
JitterStd == 5
\* denominator of the interpolated noise values
NoiseDen == 100
\* denominator of the blend factor alpha
AlphaDen == 2

\* rotations = [0, 0.5, 1, 1.5] (fractions of pi), in tenths of pi
rotations == <<0, 5, 10, 15>>
\* scales = [0.95, 1, 1.05], over ScaleDen
scales == <<19, 20, 21>>
\* distortion_params = [[0.2, 0.4], [0.8, 1.6]] (granularity, magnitude), mm
distortion_params == << <<200, 400>>, <<800, 1600>> >>

(* The random sources (random, numpy.random, torch's generator) are one    *)
(* process-wide generator: a state in 0..RngPeriod-1, advanced by RngStep   *)
(* at every draw; the draw at state u is the uniform value u / RngPeriod.   *)
RngPeriod == 20
RngStep == 7
\* the most draws one call makes: angle, scale, skip, two noise fields,
\* anchor, two color decisions, blend factor, normal zeroing
MaxDraws == 10

----------------------------------------------------------------------------
(* Tensors *)

Min(S) == CHOOSE x \in S : \A y \in S : x <= y
Max(S) == CHOOSE x \in S : \A y \in S : x >= y

\* t.min(dim=0)[0] and t.max(dim=0)[0] of an N x 3 tensor
ColMin(t) == [j \in 1..3 |-> Min({t[i][j] : i \in DOMAIN t})]
ColMax(t) == [j \in 1..3 |-> Max({t[i][j] : i \in DOMAIN t})]

\* t - m, m broadcast over the rows
SubRow(t, m) == [i \in DOMAIN t |-> [j \in 1..3 |-> t[i][j] - m[j]]]

\* t[indices]: the rows of t at the (0-based) indices
Index(t, indices) == [k \in 1..Len(indices) |-> t[indices[k] + 1]]

\* cos and sin of angle = pi * a / 10 for the quarter turns
Cos(a) == CASE a % 20 = 0 -> 1 [] a % 20 = 10 -> -1 [] OTHER -> 0
Sin(a) == CASE a % 20 = 5 -> 1 [] a % 20 = 15 -> -1 [] OTHER -> 0

\* torch.tensor([[cos, sin, 0], [-sin, cos, 0], [0, 0, 1]])
RotMat(a) == << <<Cos(a), Sin(a), 0>>, <<-Sin(a), Cos(a), 0>>, <<0, 0, 1>> >>

\* rotmat *= s: every entry of the matrix is scaled (s over ScaleDen)
ScaleMat(m, s) == [i \in 1..3 |-> [j \in 1..3 |-> m[i][j] * s]]

\* t @ m for row vectors, the entries of m over den
MatMul(t, m, den) ==
  [i \in DOMAIN t |->
     [j \in 1..3 |-> (t[i][1] * m[1][j] + t[i][2] * m[2][j] + t[i][3] * m[3][j]) \div den]]

(* A working tensor is a value with the storage it lives in: "tmp" for a    *)
(* tensor allocated by the call, or the field of the scene whose storage it *)
(* shares.  An in-place operation keeps the storage.                        *)
Bind(v, own) == [v |-> v, own |-> own]

\* faulty variant: the product is written back into the left operand's storage
MatMulInPlace(b, m, den) == Bind(MatMul(b.v, m, den), b.own)

\* xyz @ rotmat allocates its result
MatMulB(b, m, den) == Bind(MatMul(b.v, m, den), "tmp")

\* faulty variant: indexing returns a view of the indexed tensor
IndexView(b, indices) == Bind(Index(b.v, indices), b.own)

\* t[indices] with an index tensor copies the selected rows
IndexB(b, indices) == Bind(Index(b.v, indices), "tmp")

\* faulty variant: the positions are left where they are
RecenterSkipped(b) == b

\* t -= t.min(dim=0)[0], in place
RecenterB(b) == Bind(SubRow(b.v, ColMin(b.v)), b.own)

\* the scene after the in-place operations of a call, in program order
RECURSIVE Commit(_, _)
Commit(scene, writes) ==
  IF writes = <<>> THEN scene
  ELSE LET w == Head(writes)
       IN Commit(IF w.own = "tmp" THEN scene ELSE [scene EXCEPT ![w.own] = w.v],
                 Tail(writes))

----------------------------------------------------------------------------
(* utils.cutils: grid subsampling (outside src/, after section 6 of the     *)
(* specification): one representative row per occupied grid cell, the cells *)
(* in the order of their first row; the deterministic variant takes in      *)
(* every cell the row at offset pick, counted cyclically.                   *)

Voxel(p, cell) == [j \in 1..3 |-> p[j] \div cell]

RECURSIVE Ascending(_)
Ascending(S) == IF S = {} THEN <<>> ELSE <<Min(S)>> \o Ascending(S \ {Min(S)})

CellRows(t, cell, i) == Ascending({j \in DOMAIN t : Voxel(t[j], cell) = Voxel(t[i], cell)})

FirstRows(t, cell) ==
  Ascending({i \in DOMAIN t : \A j \in 1..(i - 1) : Voxel(t[j], cell) # Voxel(t[i], cell)})

grid_subsampling_test(t, cell, pick) ==
  LET firsts == FirstRows(t, cell)
  IN [k \in 1..Len(firsts) |->
        LET rows == CellRows(t, cell, firsts[k])
        IN rows[(pick % Len(rows)) + 1] - 1]

\* the training variant: the selection of some offset
grid_subsampling(t, cell) == {grid_subsampling_test(t, cell, p) : p \in 0..MaxTrainPick}

----------------------------------------------------------------------------
(* Deterministic test enumeration: the decoding of idx *)

\* augs = len(rotations) * len(scales)
augs == Len(rotations) * Len(scales)

\* aug = idx % self.loop; pick = aug // augs
TestPick(idx, loop) == (idx % loop) \div augs

\* faulty variant: the variant follows the index of the call before as well
TestAugHidden(idx, loop) == ((idx + out.idx) % loop) % augs

\* aug %= augs
TestAug(idx, loop) == (idx % loop) % augs

\* faulty variant: the rotation index taken modulo the rotation catalog
RotIndexMinor(aug) == aug % Len(rotations)

\* rotations[aug // len(scales)]
RotIndex(aug) == aug \div Len(scales)

\* faulty variant: the scale index taken by division, like the rotation index
ScaleIndexDiv(aug) == aug \div Len(rotations)

\* scales[aug % len(scales)]
ScaleIndex(aug) == aug % Len(scales)

\* idx //= self.loop
\* faulty variant: the scene changes every loop + 1 indices
SceneIndexLate(idx, loop) == idx \div (loop + 1)

SceneIndex(idx, loop) == idx \div loop

\* pick = idx % self.loop * 5
S3DISPick(idx, loop) == (idx % loop) * PickStride

----------------------------------------------------------------------------
(* The random sources *)

\* the generator state after one draw
RngNext(s) == (s + RngStep) % RngPeriod

RECURSIVE RngAfter(_, _)
RngAfter(s, k) == IF k = 0 THEN s ELSE RngAfter(RngNext(s), k - 1)

\* the draws a call makes when it runs alone from generator state s
Stream(s) == [k \in 1..MaxDraws |-> RngAfter(s, k - 1)]

\* random.random() < pct / 100
Below(u, pct) == u * 100 < pct * RngPeriod

\* angle = random.random() * 2 * math.pi, in tenths of pi, taken down to
\* the quarter turn
AngleOf(u) == ((u * 4) \div RngPeriod) * 5

\* random.uniform(0.8, 1.2), over ScaleDen, taken down to the integer
ScaleOf(u) == 16 + (u * 8) \div RngPeriod

\* the smoothed noise field np.random.randn gives a pass (0: flat)
NoiseOf(u) == u % 2

\* random.choice(xyz): the row drawn among n
AnchorOf(u, n) == (u * n) \div RngPeriod

\* alpha = random.random(), over AlphaDen
AlphaOf(u) == (u * AlphaDen) \div RngPeriod

----------------------------------------------------------------------------
(* ElasticDistortion *)

(* coords is a float32 array, granularity a Python float.  The extent, the  *)
(* floor division by the granularity and the lower ends of the axes are     *)
(* computed in float32, the upper ends (an int64 array times a Python       *)
(* float) in float64.  Float32 values lie on a lattice of SingleBits        *)
(* significant bits, held here in 1/FloatScale of the unit of length, with  *)
(* 0.2 m and 0.8 m off the lattice and 1 m on it, as in binary floating     *)
(* point; float64 is exact at this resolution.                              *)

\* significant bits of a float32 of the model
SingleBits == 4
\* the lattice is in eighths of the unit of length
FloatScale == 8
\* its coarsest common step: 1 m is LatticeBase * FloatScale of them
LatticeBase == 125

RECURSIVE Pow2(_)
Pow2(n) == IF n = 0 THEN 1 ELSE 2 * Pow2(n - 1)

\* the spacing of the float32 values around a magnitude x
RECURSIVE UlpFrom(_, _)
UlpFrom(x, u) == IF x < u * Pow2(SingleBits) THEN u ELSE UlpFrom(x, 2 * u)

\* the float32 nearest to x (in 1/FloatScale), ties to the even significand
Single(x) ==
  LET u == UlpFrom(IF x < 0 THEN -x ELSE x, LatticeBase)
      q == x \div u
      r == x % u
  IN IF 2 * r < u THEN q * u
     ELSE IF 2 * r > u THEN (q + 1) * u
     ELSE (IF q % 2 = 0 THEN q ELSE q + 1) * u

\* faulty variant: one node less on every axis
NoiseDimShort(coords, granularity) ==
  [j \in 1..3 |->
     (Single(FloatScale * ColMax(SubRow(coords, ColMin(coords)))[j])
        \div Single(FloatScale * granularity)) + 2]

\* noise_dim = ((coords - coords_min).max(0) // granularity).astype(int) + 3
NoiseDim(coords, granularity) ==
  [j \in 1..3 |->
     (Single(FloatScale * ColMax(SubRow(coords, ColMin(coords)))[j])
        \div Single(FloatScale * granularity)) + 3]

\* ax = [np.linspace(d_min, d_max, d) for d_min, d_max, d in
\*       zip(coords_min - granularity, coords_min + granularity * (noise_dim - 2),
\*           noise_dim)]: the ends (in 1/FloatScale) and the number of nodes
ax(coords, granularity) ==
  LET lo == ColMin(coords)
      noise_dim == NoiseDim(coords, granularity)
  IN [j \in 1..3 |->
        [d_min |-> Single(FloatScale * lo[j] - Single(FloatScale * granularity)),
         d_max |-> FloatScale * (lo[j] + granularity * (noise_dim[j] - 2)),
         d |-> noise_dim[j]]]

\* RegularGridInterpolator(ax, noise, bounds_error=False, fill_value=0): the
\* point is outside the grid on some axis
OutOfBounds(p, axes) ==
  \E j \in 1..3 : FloatScale * p[j] < axes[j].d_min \/ FloatScale * p[j] > axes[j].d_max

\* interp(coords): the smoothed noise at a point, over NoiseDen; a field
\* that varies with the position (n = 0: the flat field)
Interp(p, n) ==
  <<n * ((p[1] \div CellScanNet) % 2), 0, n * ((p[2] \div CellScanNet) % 2)>>

\* coords += interp(coords) * magnitude
elastic_distortion(coords, granularity, magnitude, n) ==
  LET axes == ax(coords, granularity)
  IN [i \in DOMAIN coords |->
        IF OutOfBounds(coords[i], axes) THEN coords[i]
        ELSE [j \in 1..3 |->
                coords[i][j] + (Interp(coords[i], n)[j] * magnitude) \div NoiseDen]]

\* ElasticDistortion.__call__: skip, or every pass in list order; noise[k]
\* is the noise drawn for pass k
RECURSIVE Passes(_, _, _)
Passes(coords, k, noise) ==
  IF k > Len(distortion_params) THEN coords
  ELSE Passes(elastic_distortion(coords, distortion_params[k][1],
                                 distortion_params[k][2], noise[k]),
              k + 1, noise)

\* faulty variant: the call returns after the first pass
elsFirstPass(b, skip, noise) ==
  IF skip THEN b
  ELSE Bind(elastic_distortion(b.v, distortion_params[1][1], distortion_params[1][2],
                               noise[1]), b.own)

els(b, skip, noise) == IF skip THEN b ELSE Bind(Passes(b.v, 1, noise), b.own)

\* xyz += torch.empty_like(xyz).normal_(std=0.005): independent per element
Jitter(b, j) ==
  Bind([i \in DOMAIN b.v |->
          <<b.v[i][1] + j * JitterStd * (i % 2), b.v[i][2],
            b.v[i][3] - j * JitterStd * ((i + 1) % 2)>>], b.own)

----------------------------------------------------------------------------
(* Locality-preserving crop *)

\* (xyz - pt).square().sum(dim=1)
SquareDist(t, pt) ==
  [i \in DOMAIN t |->
     (t[i][1] - pt[1]) * (t[i][1] - pt[1]) + (t[i][2] - pt[2]) * (t[i][2] - pt[2])
       + (t[i][3] - pt[3]) * (t[i][3] - pt[3])]

\* argsort(): every order of the (0-based) rows by ascending key; torch's
\* default sort is not stable, so rows of equal key come in any order
RECURSIVE ArgsortFrom(_, _)
ArgsortFrom(keys, rest) ==
  IF rest = {} THEN {<<>>}
  ELSE LET m == Min({keys[i + 1] : i \in rest})
       IN UNION {{<<i>> \o t : t \in ArgsortFrom(keys, rest \ {i})} :
                 i \in {j \in rest : keys[j + 1] = m}}

\* faulty variant: the rows are left in their order, not sorted by distance
ArgsortIdentity(keys) == {[i \in 1..Len(keys) |-> i - 1]}

Argsort(keys) == ArgsortFrom(keys, 0..(Len(keys) - 1))

\* s[:n]
Prefix(s, n) == SubSeq(s, 1, IF n < Len(s) THEN n ELSE Len(s))

RECURSIVE SortValues(_)
\* faulty variant: the selection is left in distance order
SortSkipped(s) == s

\* .sort()[0]: the values in ascending order
SortValues(s) ==
  IF s = <<>> THEN <<>>
  ELSE LET m == Min({s[i] : i \in DOMAIN s})
           k == Min({i \in DOMAIN s : s[i] = m})
       IN <<m>> \o SortValues(SubSeq(s, 1, k - 1) \o SubSeq(s, k + 1, Len(s)))

\* faulty variant: the crop is taken from voxel_max rows on
NeedsCropAt(n, voxel_max) == n >= voxel_max

\* if xyz.shape[0] > self.voxel_max
NeedsCrop(n, voxel_max) == n > voxel_max

\* the conditions the crop may compute for the anchor row
Conditions(t, row, voxel_max) ==
  {SortValues(Prefix(perm, voxel_max)) : perm \in Argsort(SquareDist(t, t[row + 1]))}

\* faulty variant: the crop filters the positions and leaves the index list
CropResultPositionsOnly(xyz, indices, voxel_max, row, condition) ==
  IF NeedsCrop(Len(xyz.v), voxel_max)
  THEN [xyz |-> IndexB(xyz, condition), indices |-> indices,
        condition |-> condition, pt |-> row, draws |-> 1]
  ELSE [xyz |-> xyz, indices |-> indices, condition |-> <<>>, pt |-> -1, draws |-> 0]

\* the crop of the subsampled positions and indices: nothing when the count
\* is within voxel_max, else the rows of a condition computed for the anchor
CropResult(xyz, indices, voxel_max, row, condition) ==
  IF NeedsCrop(Len(xyz.v), voxel_max)
  THEN [xyz |-> IndexB(xyz, condition), indices |-> Index(indices, condition),
        condition |-> condition, pt |-> row, draws |-> 1]
  ELSE [xyz |-> xyz, indices |-> indices, condition |-> <<>>, pt |-> -1, draws |-> 0]

\* the conditions a crop of t can come to
CropChoices(t, voxel_max, row) ==
  IF NeedsCrop(Len(t), voxel_max) THEN Conditions(t, row, voxel_max) ELSE {<<>>}

----------------------------------------------------------------------------
(* Color augmentation.  A feature color is a fraction <<n, d>>; d = 0 is    *)
(* the not-a-number a stretch over a channel of zero range computes.        *)

\* col.fill_(0.)
ColorZero(col) == [i \in DOMAIN col |-> [j \in 1..3 |-> <<0, 1>>]]

\* col.mul_(1 / 250.) on the raw color
ColorScaled(col) == [i \in DOMAIN col |-> [j \in 1..3 |-> <<col[i][j], ColorDiv>>]]

\* scale = 255 / (colmax - colmin);
\* col = (1 - alpha + alpha * scale) * col - alpha * colmin * scale, then
\* col.mul_(1 / 250.); alpha is a over AlphaDen
ColorStretch(col, a) ==
  LET lo == ColMin(col)
      hi == ColMax(col)
  IN [i \in DOMAIN col |->
        [j \in 1..3 |->
           <<(AlphaDen - a) * (hi[j] - lo[j]) * col[i][j] + a * ColorTop * col[i][j]
               - a * ColorTop * lo[j],
             AlphaDen * (hi[j] - lo[j]) * ColorDiv>>]]

ColorAugment(col, c) ==
  CASE c.kind = "zero" -> ColorZero(col)
    [] c.kind = "stretch" -> ColorStretch(col, c.alpha)
    [] OTHER -> ColorScaled(col)

\* norm.fill_(0.)
NormZero(norm) == [i \in DOMAIN norm |-> <<0, 0, 0>>]

\* torch.cat([col, height, norm], dim=1) with height = xyz[:, 2:]
Feature(col, xyz, norm) ==
  [i \in DOMAIN xyz |-> col[i] \o <<xyz[i][3]>> \o (IF norm = <<>> THEN <<>> ELSE norm[i])]

----------------------------------------------------------------------------
(* The sample handlers.  u is the sequence of draws the call is served.     *)
(* Each handler yields the sample with the trace of the call (transform,    *)
(* subsampled count, crop, number of draws made) and the tensors it changed *)
(* in place, in program order.                                              *)

Cell(variant) == IF variant = "scannetv2" THEN CellScanNet ELSE CellS3DIS

\* faulty variant: the matrix is scaled before the normals are multiplied
ScaleThenRotate(rotmat, scale) ==
  [norm |-> [m |-> ScaleMat(rotmat, scale), den |-> ScaleDen],
   xyz |-> [m |-> ScaleMat(rotmat, scale), den |-> ScaleDen]]

\* norm = norm @ rotmat; rotmat *= scale; xyz = xyz @ rotmat: the matrix
\* each product sees
RotateThenScale(rotmat, scale) ==
  [norm |-> [m |-> rotmat, den |-> 1],
   xyz |-> [m |-> ScaleMat(rotmat, scale), den |-> ScaleDen]]

\* ScanNetV2.__getitem__, training, up to the grid subsampling
ScanNetTrainHead(scene, u) ==
  LET angle == AngleOf(u[1])
      scale == ScaleOf(u[2])
      skip == ~Below(u[3], 95)
      noise == IF skip THEN <<>> ELSE <<NoiseOf(u[4]), NoiseOf(u[5])>>
      rotmat == RotateThenScale(RotMat(angle), scale)
      norm == MatMulB(Bind(scene.norm, "norm"), rotmat.norm.m, rotmat.norm.den)
      xyz1 == MatMulB(Bind(scene.xyz, "xyz"), rotmat.xyz.m, rotmat.xyz.den)
      xyz2 == els(xyz1, skip, noise)
      xyz3 == RecenterB(xyz2)
  IN [xyz |-> xyz3, norm |-> norm, normals |-> TRUE, writes |-> <<xyz2, xyz3>>,
      normT |-> norm.v, xyzT |-> MatMul(scene.xyz, rotmat.xyz.m, 1),
      draws |-> IF skip THEN 3 ELSE 3 + Len(distortion_params),
      rot |-> angle, sc |-> scale, noise |-> noise]

\* S3DIS.__getitem__, training, up to the grid subsampling
S3DISTrainHead(scene, u) ==
  LET angle == AngleOf(u[1])
      scale == ScaleOf(u[2])
      rotmat == ScaleMat(RotMat(angle), scale)
      xyz1 == MatMulB(Bind(scene.xyz, "xyz"), rotmat, ScaleDen)
      xyz2 == Jitter(xyz1, NoiseOf(u[3]))
      xyz3 == RecenterB(xyz2)
  IN [xyz |-> xyz3, norm |-> Bind(<<>>, "tmp"), normals |-> FALSE,
      writes |-> <<xyz2, xyz3>>, draws |-> 3,
      normT |-> <<>>, xyzT |-> MatMul(scene.xyz, rotmat, 1),
      rot |-> angle, sc |-> scale, noise |-> <<NoiseOf(u[3])>>]

\* the color decisions: two draws against 0.2 and the blend factor, served
\* from draw k + 1 on
ColorDecision(u, k) ==
  IF Below(u[k + 1], 20) THEN [kind |-> "zero", alpha |-> 0, draws |-> 1]
  ELSE IF Below(u[k + 2], 20)
       THEN [kind |-> "stretch", alpha |-> AlphaOf(u[k + 3]), draws |-> 3]
       ELSE [kind |-> "plain", alpha |-> 0, draws |-> 2]

\* both training handlers from the subsampled selection on: crop, color
\* augmentation, normal zeroing, feature assembly
TrainTail(scene, idx, s, head, sub, voxel_max, condition, u) ==
  LET xyz0 == IndexB(head.xyz, sub)
      row == AnchorOf(u[head.draws + 1], Len(sub))
      cr == CropResult(xyz0, sub, voxel_max, row, condition)
      k1 == head.draws + cr.draws
      col0 == IndexB(Bind(scene.col, "col"), cr.indices)
      lbl == IndexB(Bind(scene.lbl, "lbl"), cr.indices)
      norm0 == IF head.normals THEN IndexB(head.norm, cr.indices) ELSE head.norm
      c == ColorDecision(u, k1)
      col1 == Bind(ColorAugment(col0.v, c), IF c.kind = "stretch" THEN "tmp" ELSE col0.own)
      k2 == k1 + c.draws
      nz == head.normals /\ Below(u[k2 + 1], 20)
      norm1 == IF nz THEN Bind(NormZero(norm0.v), norm0.own) ELSE norm0
  IN [mode |-> "train", idx |-> idx, scene |-> s,
      p |-> cr.xyz.v, f |-> Feature(col1.v, cr.xyz.v, norm1.v), y |-> lbl.v,
      rgb |-> col0.v,
      rot |-> head.rot, sc |-> head.sc, pick |-> -1, noise |-> head.noise,
      normT |-> head.normT, xyzT |-> head.xyzT, xyzR |-> head.xyz.v,
      color |-> [kind |-> c.kind, alpha |-> c.alpha], nz |-> nz,
      n |-> Len(sub), sub |-> sub, pre |-> xyz0.v,
      indices |-> cr.indices, condition |-> cr.condition, pt |-> cr.pt,
      draws |-> k2 + (IF head.normals THEN 1 ELSE 0),
      recenters |-> <<"transform">>,
      writes |-> head.writes \o <<col1, norm1>>]

\* the samples a training call of idx can return when served the draws u
TrainItems(variant, scenes, loop, voxel_max, idx, u) ==
  LET s == SceneIndex(idx, loop)
      scene == scenes[s + 1]
      head == IF variant = "scannetv2" THEN ScanNetTrainHead(scene, u)
              ELSE S3DISTrainHead(scene, u)
  IN UNION {{TrainTail(scene, idx, s, head, sub, voxel_max, condition, u) :
             condition \in CropChoices(Index(head.xyz.v, sub), voxel_max,
                                       AnchorOf(u[head.draws + 1], Len(sub)))} :
            sub \in grid_subsampling(head.xyz.v, Cell(variant))}

NoColor == [kind |-> "plain", alpha |-> 0]

\* ScanNetV2.get_test_item
ScanNetTestItem(scene, idx, loop) ==
  LET pick == TestPick(idx, loop)
      aug == TestAug(idx, loop)
      angle == rotations[RotIndex(aug) + 1]
      scale == scales[ScaleIndex(aug) + 1]
      rotmat == RotateThenScale(RotMat(angle), scale)
      norm0 == MatMulB(Bind(scene.norm, "norm"), rotmat.norm.m, rotmat.norm.den)
      xyz1 == MatMulB(Bind(scene.xyz, "xyz"), rotmat.xyz.m, rotmat.xyz.den)
      xyz2 == RecenterB(xyz1)
      indices == grid_subsampling_test(xyz2.v, CellScanNet, pick)
      xyz3 == IndexB(xyz2, indices)
      lbl == IndexB(Bind(scene.lbl, "lbl"), indices)
      col0 == IndexB(Bind(scene.col, "col"), indices)
      norm == IndexB(norm0, indices)
      col1 == Bind(ColorScaled(col0.v), col0.own)
      xyz4 == RecenterB(xyz3)
  IN [mode |-> "test", idx |-> idx, scene |-> SceneIndex(idx, loop),
      p |-> xyz4.v, f |-> Feature(col1.v, xyz4.v, norm.v), y |-> lbl.v,
      rgb |-> col0.v,
      rot |-> angle, sc |-> scale, pick |-> pick, noise |-> <<>>,
      normT |-> norm0.v, xyzT |-> MatMul(scene.xyz, rotmat.xyz.m, 1), xyzR |-> xyz2.v,
      color |-> NoColor, nz |-> FALSE,
      n |-> Len(indices), sub |-> indices, pre |-> xyz3.v,
      indices |-> indices, condition |-> <<>>, pt |-> -1,
      draws |-> 0, recenters |-> <<"transform", "subsample">>,
      writes |-> <<xyz2, col1, xyz4>>]

\* S3DIS.get_test_item
S3DISTestItem(scene, idx, loop) ==
  LET pick == S3DISPick(idx, loop)
      xyz0 == Bind(scene.xyz, "xyz")
      indices == grid_subsampling_test(xyz0.v, CellS3DIS, pick)
      xyz1 == IndexB(xyz0, indices)
      lbl == IndexB(Bind(scene.lbl, "lbl"), indices)
      col0 == IndexB(Bind(scene.col, "col"), indices)
      col1 == Bind(ColorScaled(col0.v), col0.own)
      xyz2 == RecenterB(xyz1)
  IN [mode |-> "test", idx |-> idx, scene |-> SceneIndex(idx, loop),
      p |-> xyz2.v, f |-> Feature(col1.v, xyz2.v, <<>>), y |-> lbl.v,
      rgb |-> col0.v,
      rot |-> 0, sc |-> ScaleDen, pick |-> pick, noise |-> <<>>,
      normT |-> <<>>, xyzT |-> <<>>, xyzR |-> scene.xyz,
      color |-> NoColor, nz |-> FALSE,
      n |-> Len(indices), sub |-> indices, pre |-> xyz1.v,
      indices |-> indices, condition |-> <<>>, pt |-> -1,
      draws |-> 0, recenters |-> <<"subsample">>,
      writes |-> <<col1, xyz2>>]

TestItem(variant, scenes, loop, idx) ==
  LET scene == scenes[SceneIndex(idx, loop) + 1]
  IN IF variant = "scannetv2" THEN ScanNetTestItem(scene, idx, loop)
     ELSE S3DISTestItem(scene, idx, loop)

----------------------------------------------------------------------------
(* The dataset object *)

\* the persisted scenes (positions, color, normals, labels) of the file set
SceneA ==
  [xyz |-> << <<0, 0, 0>>, <<20, 20, 20>>, <<40, 20, 20>> >>,
   col |-> << <<10, 20, 30>>, <<50, 20, 90>>, <<250, 20, 0>> >>,
   norm |-> << <<0, 0, 1>>, <<1, 0, 0>>, <<0, 1, 0>> >>,
   lbl |-> <<1, 2, 3>>]

SceneB ==
  [xyz |-> << <<20, 0, 0>>, <<0, 20, 0>>, <<0, 0, 0>>, <<20, 20, 0>> >>,
   col |-> << <<0, 0, 0>>, <<255, 100, 5>>, <<7, 7, 7>>, <<30, 200, 90>> >>,
   norm |-> << <<0, 0, 1>>, <<0, 0, 1>>, <<1, 0, 0>>, <<0, -1, 0>> >>,
   lbl |-> <<4, 5, 6, 7>>]

\* an S3DIS scene has no normals
Persisted(variant, scene) ==
  IF variant = "scannetv2" THEN scene ELSE [scene EXCEPT !.norm = <<>>]

SceneLists == {<<SceneA, SceneB>>, <<SceneB>>}

\* the loops of an evaluation set: one variant per rotation, scale and offset
TestLoops == {augs * P : P \in 1..MaxOffsets}

Loops == {DefaultLoop} \cup TestLoops

NoOut ==
  [mode |-> "none", idx |-> 0, scene |-> 0, p |-> <<>>, f |-> <<>>, y |-> <<>>,
   rgb |-> <<>>, rot |-> 0, sc |-> 0, pick |-> 0, noise |-> <<>>,
   normT |-> <<>>, xyzT |-> <<>>, xyzR |-> <<>>,
   color |-> NoColor, nz |-> FALSE, n |-> 0, sub |-> <<>>, pre |-> <<>>,
   indices |-> <<>>, condition |-> <<>>, pt |-> -1, draws |-> 0,
   recenters |-> <<>>, rng0 |-> 0]

\* what is kept of an earlier test sample: the sample, its transform, and
\* whether a training call has returned since
Kept(r) ==
  [mode |-> r.mode, idx |-> r.idx, p |-> r.p, f |-> r.f, y |-> r.y, rgb |-> r.rgb,
   rot |-> r.rot, sc |-> r.sc, pick |-> r.pick, scene |-> r.scene,
   indices |-> r.indices, normT |-> r.normT, xyzT |-> r.xyzT, between |-> FALSE]

\* no test sample kept yet, and none ever kept
Unkept == [Kept(NoOut) EXCEPT !.mode = "none"]
Unwatched == [Unkept EXCEPT !.mode = "off"]

Idle == [phase |-> "idle"]

\* the configurations: a training set repeats every scene DefaultLoop times,
\* an evaluation set once per rotation and scale of the catalogs
Configs ==
  {c \in [variant : {"scannetv2", "s3dis"}, train : BOOLEAN, loop : Loops,
          voxel_max : 1..MaxVoxelMax] :
     c.train <=> c.loop = DefaultLoop}

\* the state after __init__: the scenes loaded, the configuration stored
Constructed(configs, lists) ==
  /\ cfg \in configs
  /\ datas \in {[i \in DOMAIN l |-> Persisted(cfg.variant, l[i])] : l \in lists}
  /\ loaded = datas
  /\ out = NoOut
  /\ rng = 0

Init ==
  /\ Constructed(Configs, SceneLists)
  /\ ref = Unwatched /\ sweep = Idle /\ crop = Idle /\ threads = Idle /\ ctor = Idle /\ dist = Idle

\* the same, one earlier test sample being kept for comparison
InitTwice ==
  /\ Constructed({c \in Configs : c.voxel_max = MaxVoxelMax}, {<<SceneA>>})
  /\ ref = Unkept /\ sweep = Idle /\ crop = Idle /\ threads = Idle /\ ctor = Idle /\ dist = Idle

\* __len__
DatasetLen == Len(datas) * cfg.loop

\* the sample of a call that started at generator state s
Sample(r, s) ==
  [k \in (DOMAIN r \ {"writes"}) \cup {"rng0"} |-> IF k = "rng0" THEN s ELSE r[k]]

\* a call returns: the sample is handed out, the in-place operations have
\* taken effect on the storage they ran on, the draws made have advanced the
\* generator; ref keeps one earlier test sample when samples are watched
Return(r) ==
  /\ out' = Sample(r, rng)
  /\ datas' = [datas EXCEPT ![r.scene + 1] = Commit(@, r.writes)]
  /\ rng' = RngAfter(rng, r.draws)
  /\ ref' \in (CASE r.mode = "test" /\ ref.mode = "none" -> {ref, Kept(r)}
                 [] r.mode = "train" /\ ref.mode = "test" -> {[ref EXCEPT !.between = TRUE]}
                 [] OTHER -> {ref})
  /\ UNCHANGED <<loaded, cfg, sweep, ctor, dist, crop, threads>>

\* dataset[idx]: __getitem__, which hands a test-mode call to get_test_item
GetItem ==
  \E idx \in 0..(DatasetLen - 1) :
    IF cfg.train
    THEN \E r \in TrainItems(cfg.variant, datas, cfg.loop, cfg.voxel_max, idx, Stream(rng)) :
           Return(r)
    ELSE Return(TestItem(cfg.variant, datas, cfg.loop, idx))

\* dataset.get_test_item(idx), called directly
GetTestItem ==
  \E idx \in 0..(DatasetLen - 1) : Return(TestItem(cfg.variant, datas, cfg.loop, idx))

Next == GetItem \/ GetTestItem

Spec == Init /\ [][Next]_vars

SpecTwice == InitTwice /\ [][Next]_vars

----------------------------------------------------------------------------
(* The enumeration sweep: get_test_item's decoding of every idx of one      *)
(* scene, in order, as an evaluation pass over the dataset makes them.      *)

\* scenes of the swept dataset
SweepScenes == 2

InitEnum ==
  /\ cfg \in {[variant |-> "scannetv2", train |-> FALSE, loop |-> l,
               voxel_max |-> MaxVoxelMax] : l \in 1..(augs * MaxOffsets)}
  /\ sweep \in {[phase |-> "sweep", scene |-> s, v |-> 0, visited |-> <<>>] :
                s \in 0..(SweepScenes - 1)}
  /\ datas = <<>> /\ loaded = <<>> /\ out = NoOut /\ ref = Unwatched /\ rng = 0
  /\ crop = Idle /\ threads = Idle /\ ctor = Idle /\ dist = Idle

\* the offset, rotation index and scale index get_test_item works with
Decode(idx, loop) ==
  LET aug == TestAug(idx, loop)
  IN <<TestPick(idx, loop), RotIndex(aug), ScaleIndex(aug)>>

EnumStep ==
  /\ sweep.phase = "sweep"
  /\ sweep.v < cfg.loop
  /\ sweep' = [sweep EXCEPT
                 !.v = @ + 1,
                 !.visited = Append(@, Decode(sweep.scene * cfg.loop + sweep.v, cfg.loop))]
  /\ UNCHANGED <<datas, loaded, cfg, out, ref, ctor, dist, crop, threads, rng>>

SpecEnum == InitEnum /\ [][EnumStep]_vars

----------------------------------------------------------------------------
(* The crop step of the training handlers on its own: the subsampled        *)
(* positions and indices in, the cropped ones out.                          *)

\* most rows of a drawn crop input
MaxCropRows == 3

\* the points the crop inputs are drawn from
CropPool == {<<0, 0, 0>>, <<20, 0, 0>>, <<0, 20, 0>>, <<20, 20, 20>>}

\* ten points of a unit cube grid, for the cap of five
ScenarioGrid ==
  << <<1, 1, 1>>, <<0, 0, 1>>, <<2, 0, 0>>, <<0, 0, 0>>, <<1, 0, 0>>,
     <<0, 1, 0>>, <<1, 1, 0>>, <<2, 1, 1>>, <<0, 1, 1>>, <<1, 0, 1>> >>

\* the subsampled clouds: rows in distinct places
CropClouds ==
  {t \in UNION {[1..n -> CropPool] : n \in 1..MaxCropRows} :
     \A i, j \in DOMAIN t : i # j => t[i] # t[j]}

\* an index list of a subsampling, not in ascending order
SubIndices(n) == [k \in 1..n |-> 2 * (n - k) + 1]

CropInput(t, vm) ==
  [phase |-> "in", xyz |-> t, indices |-> SubIndices(Len(t)), voxel_max |-> vm,
   xyz1 |-> <<>>, indices1 |-> <<>>, condition |-> <<>>, pt |-> -1, rng0 |-> 0]

InitCrop ==
  /\ crop \in {CropInput(t, vm) : t \in CropClouds, vm \in 1..MaxVoxelMax}
                \cup {CropInput(ScenarioGrid, 5)}
  /\ rng \in 0..(RngPeriod - 1)
  /\ datas = <<>> /\ loaded = <<>> /\ out = NoOut /\ ref = Unwatched
  /\ cfg = [variant |-> "scannetv2", train |-> TRUE, loop |-> DefaultLoop,
            voxel_max |-> crop.voxel_max]
  /\ sweep = Idle /\ threads = Idle /\ ctor = Idle /\ dist = Idle

\* if xyz.shape[0] > self.voxel_max: pt = random.choice(xyz); condition = ...;
\* xyz = xyz[condition]; indices = indices[condition]
CropStep ==
  /\ crop.phase = "in"
  /\ LET row == AnchorOf(rng, Len(crop.xyz))
     IN \E c \in CropChoices(crop.xyz, crop.voxel_max, row) :
          LET cr == CropResult(Bind(crop.xyz, "tmp"), crop.indices, crop.voxel_max, row, c)
          IN /\ crop' = [crop EXCEPT !.phase = "out", !.xyz1 = cr.xyz.v,
                                     !.indices1 = cr.indices, !.condition = cr.condition,
                                     !.pt = cr.pt, !.rng0 = rng]
             /\ rng' = RngAfter(rng, cr.draws)
  /\ UNCHANGED <<datas, loaded, cfg, out, ref, sweep, ctor, dist, threads>>

SpecCrop == InitCrop /\ [][CropStep]_vars

----------------------------------------------------------------------------
(* Calls of several threads of one process.  A call runs to its next draw   *)
(* from the process-wide generator in one step; the draws of the calls      *)
(* under way are served in the order the threads reach them.                *)

\* threads calling into the dataset
Threads == 1..2

\* most times a call under way is preempted by another thread
MaxPreempt == 2

NotCalled == [pc |-> "idle", kind |-> "none", idx |-> 0, rng0 |-> 0, u |-> <<>>,
              res |-> NoOut]

InitConc ==
  /\ Constructed({[variant |-> v, train |-> TRUE, loop |-> 1, voxel_max |-> MaxVoxelMax] :
                  v \in {"scannetv2", "s3dis"}}, {<<SceneA, SceneB>>})
  /\ threads = [calls |-> [t \in Threads |-> NotCalled], running |-> 0, preempted |-> 0]
  /\ ref = Unwatched /\ sweep = Idle /\ crop = Idle /\ ctor = Idle /\ dist = Idle

\* the draws made so far, filled up to the length a handler reads
Padded(u) == [k \in 1..MaxDraws |-> IF k <= Len(u) THEN u[k] ELSE 0]

\* the samples a call of the kind can return on the scenes when served u
Items(kind, scenes, idx, u) ==
  IF kind = "getitem" /\ cfg.train
  THEN TrainItems(cfg.variant, scenes, cfg.loop, cfg.voxel_max, idx, u)
  ELSE {TestItem(cfg.variant, scenes, cfg.loop, idx)}

\* the draws the call makes, going by those it has made
Needed(c) == Max({r.draws : r \in Items(c.kind, datas, c.idx, Padded(c.u))})

\* thread t takes over from a thread that is inside a call
Away(t) == threads.running \notin {0, t} /\ threads.calls[threads.running].pc = "run"

\* thread t is the one running, or the interpreter hands it the processor
Scheduled(t) == Away(t) => threads.preempted < MaxPreempt

\* the threads after t has run up to call state c
Ran(t, c) ==
  [calls |-> [threads.calls EXCEPT ![t] = c], running |-> t,
   preempted |-> threads.preempted + (IF Away(t) THEN 1 ELSE 0)]

\* a thread calls dataset[idx] or dataset.get_test_item(idx)
Call(t) ==
  /\ threads.calls[t].pc = "idle"
  /\ Scheduled(t)
  /\ \E idx \in 0..(DatasetLen - 1), kind \in {"getitem", "get_test_item"} :
       threads' = Ran(t, [NotCalled EXCEPT !.pc = "run", !.kind = kind, !.idx = idx,
                                           !.rng0 = rng])
  /\ UNCHANGED <<datas, loaded, cfg, out, ref, sweep, ctor, dist, crop, rng>>

\* the call reaches its next draw
Draw(t) ==
  LET c == threads.calls[t]
  IN /\ c.pc = "run"
     /\ Scheduled(t)
     /\ Needed(c) > Len(c.u)
     /\ threads' = Ran(t, [c EXCEPT !.u = Append(@, rng)])
     /\ rng' = RngNext(rng)
     /\ UNCHANGED <<datas, loaded, cfg, out, ref, sweep, ctor, dist, crop>>

\* the call returns its sample
Finish(t) ==
  LET c == threads.calls[t]
  IN /\ c.pc = "run"
     /\ Scheduled(t)
     /\ Needed(c) <= Len(c.u)
     /\ \E r \in Items(c.kind, datas, c.idx, Padded(c.u)) :
          /\ threads' = Ran(t, [c EXCEPT !.pc = "done", !.res = Sample(r, c.rng0)])
          /\ datas' = [datas EXCEPT ![r.scene + 1] = Commit(@, r.writes)]
     /\ UNCHANGED <<loaded, cfg, out, ref, sweep, ctor, dist, crop, rng>>

NextConc == \E t \in Threads : Call(t) \/ Draw(t) \/ Finish(t)

SpecConc == InitConc /\ [][NextConc]_vars

----------------------------------------------------------------------------
(* Construction: __init__ of ScanNetV2 and S3DIS, statement by statement.   *)
(* A file of the set is a name; Disk gives the tensors torch.load returns.  *)

\* most files of an enumerated file set
MaxFiles == 3

\* a scene of as many points as SceneB
SceneC ==
  [xyz |-> << <<0, 0, 0>>, <<40, 0, 0>>, <<0, 40, 0>>, <<0, 0, 40>> >>,
   col |-> << <<1, 2, 3>>, <<4, 5, 6>>, <<7, 8, 9>>, <<10, 11, 12>> >>,
   norm |-> << <<1, 0, 0>>, <<0, 1, 0>>, <<0, 0, 1>>, <<0, 0, 1>> >>,
   lbl |-> <<8, 9, 10, 11>>]

\* a persisted scene whose color has a row less than its positions
SceneX == [SceneA EXCEPT !.col = << <<10, 20, 30>>, <<50, 20, 90>> >>]

FileNames == {"a", "b", "c", "x"}

\* torch.load(path)
Disk(name) ==
  CASE name = "a" -> SceneA
    [] name = "b" -> SceneB
    [] name = "c" -> SceneC
    [] OTHER -> SceneX

\* the file sets the enumeration can give: no file twice, possibly none
FileSets ==
  {<<>>} \cup {f \in UNION {[1..n -> FileNames] : n \in 1..MaxFiles} :
                 \A i, j \in DOMAIN f : i # j => f[i] # f[j]}

\* torch.load(data)[0].shape[0]
PointCount(variant, name) == Len(Persisted(variant, Disk(name)).xyz)

\* the object under construction: asserts is whether the interpreter runs
\* assert statements (they are compiled away under -O)
InitCtor ==
  /\ cfg \in {c \in Configs : c.voxel_max = MaxVoxelMax /\ c.loop \in {DefaultLoop, augs}}
  /\ ctor \in {[phase |-> "new", files |-> f, warmup |-> w, asserts |-> a,
                data_paths |-> <<>>, k |-> 0, max_n |-> 0, selected_data |-> "",
                loads |-> 0, error |-> "none"] :
               f \in FileSets, w \in BOOLEAN, a \in BOOLEAN}
  /\ datas = <<>> /\ loaded = <<>> /\ out = NoOut /\ ref = Unwatched /\ rng = 0
  /\ sweep = Idle /\ crop = Idle /\ threads = Idle /\ dist = Idle

Raise(kind) == ctor' = [ctor EXCEPT !.phase = "failed", !.error = kind]

\* faulty variant: a later file of the same point count replaces the selection
WarmupTakesLast(n, max_n) == n >= max_n

\* if n > max_n
WarmupTakes(n, max_n) == n > max_n

\* self.data_paths = ...; assert len(self.data_paths) > 0; if train and
\* warmup: max_n = 0; selected_data = self.data_paths[0]
CtorEnter ==
  /\ ctor.phase = "new"
  /\ IF ctor.asserts /\ ~(Len(ctor.files) > 0) THEN Raise("AssertionError")
     ELSE IF cfg.train /\ ctor.warmup
          THEN IF Len(ctor.files) = 0 THEN Raise("IndexError")
               ELSE ctor' = [ctor EXCEPT !.phase = "scan", !.data_paths = ctor.files,
                                         !.k = 1, !.max_n = 0,
                                         !.selected_data = ctor.files[1]]
          ELSE ctor' = [ctor EXCEPT !.phase = "load", !.data_paths = ctor.files]
  /\ UNCHANGED <<datas, loaded, cfg, out, ref, sweep, dist, crop, threads, rng>>

\* for data in self.data_paths: n = torch.load(data)[0].shape[0]; ...
WarmupScan ==
  /\ ctor.phase = "scan"
  /\ ctor.k <= Len(ctor.data_paths)
  /\ LET data == ctor.data_paths[ctor.k]
         n == PointCount(cfg.variant, data)
         take == WarmupTakes(n, ctor.max_n)
     IN ctor' = [ctor EXCEPT !.k = @ + 1, !.loads = @ + 1,
                             !.max_n = IF take THEN n ELSE @,
                             !.selected_data = IF take THEN data ELSE @]
  /\ UNCHANGED <<datas, loaded, cfg, out, ref, sweep, dist, crop, threads, rng>>

\* self.data_paths = [selected_data]
WarmupSelect ==
  /\ ctor.phase = "scan"
  /\ ctor.k > Len(ctor.data_paths)
  /\ ctor' = [ctor EXCEPT !.phase = "load", !.data_paths = <<ctor.selected_data>>]
  /\ UNCHANGED <<datas, loaded, cfg, out, ref, sweep, dist, crop, threads, rng>>

\* self.datas = [torch.load(path) for path in self.data_paths]
CtorLoad ==
  /\ ctor.phase = "load"
  /\ datas' = [i \in DOMAIN ctor.data_paths |->
                 Persisted(cfg.variant, Disk(ctor.data_paths[i]))]
  /\ loaded' = datas'
  /\ ctor' = [ctor EXCEPT !.phase = "done", !.loads = @ + Len(ctor.data_paths)]
  /\ UNCHANGED <<cfg, out, ref, sweep, dist, crop, threads, rng>>

NextCtor == CtorEnter \/ WarmupScan \/ WarmupSelect \/ CtorLoad

SpecCtor == InitCtor /\ [][NextCtor]_vars

----------------------------------------------------------------------------
(* A call of ElasticDistortion on its own: the coordinates in, the          *)
(* distorted coordinates out, with what each pass worked on.                *)

\* most rows of a cloud handed to the distortion
MaxElsRows == 2

\* the points the clouds are drawn from: float32 values, some on one
\* another's axes, up to a few metres apart
ElsPool ==
  {<<0, 0, 0>>, <<375, 0, 0>>, <<4500, 0, 250>>, <<125, 125, 0>>, <<2250, 125, 0>>,
   <<1000, 0, 1000>>}

ElsClouds == UNION {[1..n -> ElsPool] : n \in 1..MaxElsRows}

InitEls ==
  /\ dist \in {[phase |-> "in", coord |-> c, rng0 |-> 0, skipped |-> FALSE,
                passes |-> <<>>, result |-> <<>>] : c \in ElsClouds}
  /\ rng \in 0..(RngPeriod - 1)
  /\ datas = <<>> /\ loaded = <<>> /\ out = NoOut /\ ref = Unwatched
  /\ cfg = [variant |-> "scannetv2", train |-> TRUE, loop |-> DefaultLoop,
            voxel_max |-> MaxVoxelMax]
  /\ sweep = Idle /\ crop = Idle /\ threads = Idle /\ ctor = Idle

\* what pass k of a call works on and leaves: its parameters, its input,
\* the noise grid shape, the axes, the rows given the fill value, its output
RECURSIVE PassRecords(_, _, _)
PassRecords(coords, k, noise) ==
  IF k > Len(distortion_params) THEN <<>>
  ELSE LET granularity == distortion_params[k][1]
           magnitude == distortion_params[k][2]
           axes == ax(coords, granularity)
           after == elastic_distortion(coords, granularity, magnitude, noise[k])
       IN <<[granularity |-> granularity, magnitude |-> magnitude, coords |-> coords,
             noise_dim |-> NoiseDim(coords, granularity), ax |-> axes,
             filled |-> {i \in DOMAIN coords : OutOfBounds(coords[i], axes)},
             noise |-> noise[k], after |-> after]>>
            \o PassRecords(after, k + 1, noise)

\* ElasticDistortion.__call__(coord)
ElsCall ==
  /\ dist.phase = "in"
  /\ LET u == Stream(rng)
         skip == ~Below(u[1], 95)
         noise == IF skip THEN <<>>
                  ELSE [k \in DOMAIN distortion_params |-> NoiseOf(u[k + 1])]
         draws == IF skip THEN 1 ELSE 1 + Len(distortion_params)
     IN /\ dist' = [dist EXCEPT
                      !.phase = "out", !.rng0 = rng, !.skipped = skip,
                      !.passes = IF skip THEN <<>> ELSE PassRecords(dist.coord, 1, noise),
                      !.result = els(Bind(dist.coord, "tmp"), skip, noise).v]
        /\ rng' = RngAfter(rng, draws)
  /\ UNCHANGED <<datas, loaded, cfg, out, ref, sweep, ctor, crop, threads>>

SpecEls == InitEls /\ [][ElsCall]_vars

----------------------------------------------------------------------------
(* Properties of the sample calls *)

SameSample(a, b) == a.p = b.p /\ a.f = b.f /\ a.y = b.y /\ a.rgb = b.rgb

\* C1: a test call makes no draw from the random sources, and two test
\* calls of the same idx, whatever calls were made before and between them,
\* return the same positions, feature, labels and raw color
C1_TestDeterminism ==
  /\ out.mode = "test" => out.draws = 0 /\ rng = out.rng0
  /\ (ref.mode = "test" /\ out.mode = "test" /\ out.idx = ref.idx) => SameSample(out, ref)

\* two test calls of one idx of a rotated, scaled view, a training call
\* having returned between them
C1_Witness ==
  /\ ref.mode = "test" /\ out.mode = "test" /\ out.idx = ref.idx
  /\ ref.between /\ cfg.variant = "scannetv2" /\ out.rot = 5 /\ out.sc = 21

\* the (offset, rotation index, scale index) triples of a finished sweep
Visited == {sweep.visited[k] : k \in 1..Len(sweep.visited)}

\* C2: when loop = len(rotations) * len(scales) * P, the idx of one scene
\* visit every (offset, rotation index, scale index) of
\* [0,P) x [0,len(rotations)) x [0,len(scales)) exactly once
C2_EnumerationCoverage ==
  (sweep.phase = "sweep" /\ sweep.v = cfg.loop /\ cfg.loop % (Len(rotations) * Len(scales)) = 0)
    => /\ Visited = (0..(cfg.loop \div (Len(rotations) * Len(scales)) - 1))
                      \X (0..(Len(rotations) - 1)) \X (0..(Len(scales) - 1))
       /\ Len(sweep.visited) = cfg.loop
       /\ Cardinality(Visited) = cfg.loop

\* the sweep of the second scene done, with the most offsets
C2_Witness ==
  /\ sweep.phase = "sweep" /\ sweep.v = cfg.loop /\ sweep.scene = 1
  /\ cfg.loop = Len(rotations) * Len(scales) * MaxOffsets

\* C3: with v = idx % loop, the offset asked for is v // 12, the rotation
\* index (v % 12) // 3 and the scale index (v % 12) % 3, both inside their
\* catalogs; loop = 12, v = 7 gives offset 0, rotation index 2 (angle pi),
\* scale index 1 (scale 1.0)
C3_IndexDecoding ==
  sweep.phase = "sweep" =>
    \A k \in 1..Len(sweep.visited) :
      LET v == (sweep.scene * cfg.loop + k - 1) % cfg.loop
          apo == Len(rotations) * Len(scales)
          d == sweep.visited[k]
      IN /\ d = <<v \div apo, (v % apo) \div Len(scales), (v % apo) % Len(scales)>>
         /\ d[2] + 1 \in DOMAIN rotations /\ d[3] + 1 \in DOMAIN scales
         /\ (cfg.loop = 12 /\ v = 7)
              => d = <<0, 2, 1>> /\ rotations[d[2] + 1] = 10 /\ scales[d[3] + 1] = ScaleDen

\* the idx of the second scene decoded up to v = 7 under loop = 12
C3_Witness ==
  /\ sweep.phase = "sweep" /\ cfg.loop = 12 /\ sweep.scene = 1
  /\ Len(sweep.visited) = 8 /\ sweep.visited[8] = <<0, 2, 1>>

\* squared distance of two points, as the claims state it
Dist2(a, b) == (a[1] - b[1]) * (a[1] - b[1]) + (a[2] - b[2]) * (a[2] - b[2])
                 + (a[3] - b[3]) * (a[3] - b[3])

Cropped == crop.phase = "out" /\ Len(crop.xyz) > crop.voxel_max

\* C4: when N > voxel_max the crop keeps exactly voxel_max row indices, all
\* distinct, all in [0, N), in strictly increasing order, whatever the anchor
C4_CropSize ==
  Cropped =>
    /\ Len(crop.condition) = crop.voxel_max
    /\ Len(crop.xyz1) = crop.voxel_max /\ Len(crop.indices1) = crop.voxel_max
    /\ \A k \in DOMAIN crop.condition : crop.condition[k] \in 0..(Len(crop.xyz) - 1)
    /\ \A j, k \in DOMAIN crop.condition :
         /\ j # k => crop.condition[j] # crop.condition[k]
         /\ j < k => crop.condition[j] < crop.condition[k]

\* three points cropped to two around the last row, the first row dropped
C4_Witness ==
  /\ Cropped /\ Len(crop.xyz) = 3 /\ crop.voxel_max = 2 /\ crop.pt = 2
  /\ crop.condition = <<1, 2>>

\* C5: when N > voxel_max the anchor is an input point, every kept point is
\* at most as far from it as every dropped point, the anchor is kept, and the
\* kept rows come out in their original order; of the ten grid points with
\* voxel_max = 5 and anchor (0,0,0) the five nearest the origin are returned
C5_CropNearest ==
  Cropped =>
    LET kept == {crop.condition[k] : k \in DOMAIN crop.condition}
        anchor == crop.xyz[crop.pt + 1]
    IN /\ crop.pt \in 0..(Len(crop.xyz) - 1)
       /\ \A i \in kept : \A d \in (0..(Len(crop.xyz) - 1)) \ kept :
            Dist2(crop.xyz[i + 1], anchor) <= Dist2(crop.xyz[d + 1], anchor)
       /\ crop.pt \in kept
       /\ crop.xyz1 = [k \in DOMAIN crop.condition |-> crop.xyz[crop.condition[k] + 1]]
       /\ crop.indices1 = [k \in DOMAIN crop.condition |-> crop.indices[crop.condition[k] + 1]]
       /\ (crop.xyz = ScenarioGrid /\ anchor = <<0, 0, 0>>)
            => crop.condition \in {<<1, 3, 4, 5, 6>>, <<1, 3, 4, 5, 8>>, <<1, 3, 4, 5, 9>>}

\* the ten grid points cropped around (0,0,0), the tie at distance 2 broken
\* for the last of the tied rows
C5_Witness ==
  /\ Cropped /\ crop.xyz = ScenarioGrid /\ crop.pt = 3
  /\ crop.condition = <<1, 3, 4, 5, 9>>

\* C6: when N <= voxel_max the crop leaves positions and index list as the
\* subsampling produced them and draws no anchor
C6_CropIdentity ==
  (crop.phase = "out" /\ Len(crop.xyz) <= crop.voxel_max)
    => /\ crop.xyz1 = crop.xyz /\ crop.indices1 = crop.indices
       /\ crop.pt = -1 /\ crop.condition = <<>>
       /\ rng = crop.rng0

\* a cloud of exactly voxel_max rows through the crop step
C6_Witness ==
  /\ crop.phase = "out" /\ Len(crop.xyz) = crop.voxel_max /\ crop.voxel_max = MaxVoxelMax
  /\ crop.indices1 = crop.indices

\* C7: the tensors of the scene store are those loaded at construction
C7_SceneImmutability == datas = loaded

\* a training call whose distortion, re-centering, color zeroing and normal
\* zeroing have run, on a set a test call was made on as well
C7_Witness ==
  /\ out.mode = "train" /\ Len(out.noise) = 2 /\ out.color.kind = "zero"
  /\ cfg.variant = "scannetv2" /\ out.pt >= 0

\* C8: a finished call returned a sample it returns when run alone, from
\* the generator state it was called at, on the scenes as loaded: nothing
\* another thread does between its steps shows in its result
C8_CallsIndependent ==
  \A t \in Threads :
    LET c == threads.calls[t]
    IN c.pc = "done"
         => c.res \in {Sample(r, c.rng0) : r \in Items(c.kind, loaded, c.idx, Stream(c.rng0))}

Transform(r) == <<r.rot, r.sc, r.pick>>

\* C9 as claimed: a call of the idx of the call before it, in the same mode,
\* reproduces its transform: rotation, scale, offset, noise, anchor, color
\* and normal decisions
C9_SameIdxSameTransform ==
  [][(out.mode # "none" /\ out'.mode = out.mode /\ out'.idx = out.idx)
       => (/\ Transform(out') = Transform(out)
           /\ out'.noise = out.noise /\ out'.pt = out.pt
           /\ out'.color = out.color /\ out'.nz = out.nz)]_vars

\* C9 amended: in test mode the same idx reproduces the same rotation, scale
\* and offset whatever was called before; in training mode idx selects the
\* scene idx // loop only, rotation and scale being the first two draws
\* from the generator state the call started at
C9_TestIdxReproducible ==
  /\ (ref.mode = "test" /\ out.mode = "test" /\ out.idx = ref.idx)
       => Transform(out) = Transform(ref)
  /\ out.mode = "train"
       => /\ out.scene = out.idx \div cfg.loop
          /\ out.rot = ((out.rng0 * 4) \div RngPeriod) * 5
          /\ out.sc = 16 + (((out.rng0 + RngStep) % RngPeriod) * 8) \div RngPeriod

\* a second test call of an idx with offset 1, training calls between
C9_Witness ==
  /\ ref.mode = "test" /\ out.mode = "test" /\ out.idx = ref.idx /\ ref.between
  /\ out.pick > 0 /\ out.rng0 # 0

\* C10 as claimed: the positions of every sample have per-axis minimum 0
C10_EverySampleZeroMin == out.mode # "none" => ColMin(out.p) = <<0, 0, 0>>

\* C10 amended: a test sample has per-axis minimum 0, re-centered after the
\* subsampling (ScanNetV2: after the rigid transform as well); a training
\* sample is re-centered before subsampling and crop only, so its
\* coordinates are non-negative
C10_Recentering ==
  /\ out.mode = "test"
       => /\ ColMin(out.p) = <<0, 0, 0>>
          /\ out.recenters = IF cfg.variant = "scannetv2"
                             THEN <<"transform", "subsample">> ELSE <<"subsample">>
  /\ out.mode = "train"
       => /\ \A i \in DOMAIN out.p : \A j \in 1..3 : out.p[i][j] >= 0
          /\ out.recenters = <<"transform">>

\* a test sample of a view turned by pi, whose coordinates were negative
\* before re-centering, with a row dropped by the subsampling
C10_Witness ==
  /\ out.mode = "test" /\ cfg.variant = "scannetv2" /\ out.rot = 10
  /\ out.n < Len(datas[out.scene + 1].xyz)

\* C11: __len__ is the number of loaded scenes times loop; a call of a valid
\* idx reads scene idx // loop, a scene of the list, as variant idx % loop of
\* [0, loop); every loaded scene is the scene of exactly loop indices
C11_DatasetView ==
  /\ DatasetLen = Len(datas) * cfg.loop
  /\ \A s \in 0..(Len(datas) - 1) :
       Cardinality({idx \in 0..(DatasetLen - 1) : SceneIndex(idx, cfg.loop) = s}) = cfg.loop
  /\ out.mode # "none"
       => /\ out.idx \in 0..(DatasetLen - 1)
          /\ out.scene \in 0..(Len(datas) - 1)
          /\ out.idx - out.scene * cfg.loop \in 0..(cfg.loop - 1)
          /\ out.y = [i \in DOMAIN out.indices |-> loaded[out.scene + 1].lbl[out.indices[i] + 1]]

\* the last index of a set of two scenes has returned a sample of the second
C11_Witness ==
  /\ out.mode # "none" /\ Len(datas) = 2
  /\ out.idx = DatasetLen - 1 /\ out.scene = 1

\* point count of file i of the enumerated set
CountOf(i) == Len(Disk(ctor.files[i]).xyz)

\* C12: when and only when train and warmup are both set, the constructed
\* set is the one scene of maximal point count over the whole file set, the
\* first such in file order; otherwise it is the whole file set, in order
C12_WarmupSelection ==
  ctor.phase = "done" =>
    /\ Len(ctor.data_paths) = Len(datas)
    /\ IF cfg.train /\ ctor.warmup
       THEN /\ Len(datas) = 1
            /\ \E i \in DOMAIN ctor.files :
                 /\ datas[1] = Persisted(cfg.variant, Disk(ctor.files[i]))
                 /\ \A j \in DOMAIN ctor.files : CountOf(j) <= CountOf(i)
                 /\ \A j \in 1..(i - 1) : CountOf(j) < CountOf(i)
       ELSE datas = [i \in DOMAIN ctor.files |-> Persisted(cfg.variant, Disk(ctor.files[i]))]

\* a training set built for warmup from three files, the last two tied for
\* the most points
C12_Witness ==
  /\ ctor.phase = "done" /\ cfg.train /\ ctor.warmup
  /\ ctor.files = <<"a", "b", "c">>
  /\ datas = <<Persisted(cfg.variant, SceneB)>> /\ ctor.loads = 4

\* C13: with an empty file set, construction fails with ConfigurationError
\* before any scene is loaded, and yields no dataset object
C13_EmptySetFails ==
  (Len(ctor.files) = 0 /\ ctor.phase \notin {"idle", "new"})
    => /\ ctor.phase = "failed" /\ ctor.error = "ConfigurationError"
       /\ ctor.loads = 0 /\ datas = <<>>

\* the point counts of a scene's tensors agree
Aligned(scene) ==
  /\ Len(scene.col) = Len(scene.xyz) /\ Len(scene.lbl) = Len(scene.xyz)
  /\ scene.norm # <<>> => Len(scene.norm) = Len(scene.xyz)

\* C14: a loaded scene whose tensors disagree in point count makes the
\* construction fail with ShapeMismatch; no dataset is built on such a scene
C14_MismatchFails ==
  /\ ctor.phase = "done" => \A i \in DOMAIN datas : Aligned(datas[i])
  /\ (ctor.phase = "failed" /\ \E i \in DOMAIN ctor.files : ~Aligned(Disk(ctor.files[i])))
       => ctor.error = "ShapeMismatch"

\* C15: one skip decision per call; a skipped call runs no pass, samples no
\* noise and returns its input exactly; any other call applies every
\* configured (granularity, magnitude) pass once, in list order, each on the
\* output of the one before
C15_ElasticSkip ==
  dist.phase = "out" =>
    IF dist.skipped
    THEN /\ dist.result = dist.coord /\ dist.passes = <<>>
         /\ rng = (dist.rng0 + RngStep) % RngPeriod
    ELSE /\ Len(dist.passes) = Len(distortion_params)
         /\ \A k \in DOMAIN dist.passes :
              /\ <<dist.passes[k].granularity, dist.passes[k].magnitude>> = distortion_params[k]
              /\ dist.passes[k].coords = IF k = 1 THEN dist.coord
                                         ELSE dist.passes[k - 1].after
         /\ dist.result = dist.passes[Len(dist.passes)].after
         /\ rng = (dist.rng0 + (1 + Len(distortion_params)) * RngStep) % RngPeriod

\* a skipped call on two points, and none of its input moved
C15_Witness ==
  /\ dist.phase = "out" /\ dist.skipped /\ Len(dist.coord) = 2
  /\ dist.result = dist.coord /\ dist.coord[1] # dist.coord[2]

\* the extent of the cloud on axis j as the float32 subtraction leaves it,
\* and the granularity as the float32 division holds it
Extent32(coords, j) == Single(FloatScale * (ColMax(coords)[j] - ColMin(coords)[j]))

Granularity32(granularity) == Single(FloatScale * granularity)

C18_DomainCoversInput ==
  dist.phase = "out" =>
    \A k \in DOMAIN dist.passes :
      LET pass == dist.passes[k]
      IN /\ \A j \in 1..3 :
              /\ pass.ax[j].d_min <= FloatScale * ColMin(pass.coords)[j]
              /\ FloatScale * ColMax(pass.coords)[j] < pass.ax[j].d_max
         /\ pass.filled = {}

\* the kept test sample and the sample just returned come from the same
\* scene under the same rotation and different scale factors
ScalePair ==
  /\ cfg.variant = "scannetv2"
  /\ ref.mode = "test" /\ out.mode \in {"test", "train"}
  /\ ref.scene = out.scene /\ ref.rot = out.rot /\ ref.sc # out.sc

\* the normals inside the feature: its last three columns
NormalsOf(f) == [i \in DOMAIN f |-> SubSeq(f[i], Len(f[i]) - 2, Len(f[i]))]

\* C16: the normals are multiplied by the rotation matrix before it is
\* scaled and the positions by the scaled matrix, in training as in test: of
\* two calls on one scene with the same rotation and different scale factors
\* the rotated normals are identical and the transformed positions are in
\* the ratio of the two factors on every axis, and a scene point returned
\* by both has the same normal in both samples unless zeroed
C16_RotationScaleAsymmetry ==
  ScalePair =>
    /\ out.normT = ref.normT
    /\ DOMAIN out.xyzT = DOMAIN ref.xyzT
    /\ \A i \in DOMAIN out.xyzT : \A j \in 1..3 :
         out.xyzT[i][j] * ref.sc = ref.xyzT[i][j] * out.sc
    /\ \A a \in DOMAIN out.indices : \A b \in DOMAIN ref.indices :
         (out.indices[a] = ref.indices[b] /\ ~out.nz) =>
           NormalsOf(out.f)[a] = NormalsOf(ref.f)[b]

\* a test sample at scale 0.95 kept, a training sample of the same scene
\* turned by the same quarter turn at a scale above 1 returned
C16_Witness ==
  /\ ScalePair /\ out.mode = "train" /\ ref.rot = rotations[2]
  /\ ref.sc = scales[1] /\ out.sc > ScaleDen
  /\ out.xyzT # ref.xyzT /\ out.indices # <<>> /\ ~out.nz

\* C16 as stated: two test calls that differ only in the scale factor return
\* identical normals, and positions in the ratio of the two factors
C16_ScaleFreeOutput ==
  (ScalePair /\ out.mode = "test" /\ out.pick = ref.pick) =>
    /\ NormalsOf(out.f) = NormalsOf(ref.f)
    /\ DOMAIN out.p = DOMAIN ref.p
    /\ \A i \in DOMAIN out.p : \A j \in 1..3 : out.p[i][j] * ref.sc = ref.p[i][j] * out.sc

\* the positions of the selected scene points as the call had them before
\* the grid subsampling, re-centered on the selection in test mode
RowsOf(r) ==
  LET rows == Index(r.xyzR, r.indices)
  IN IF r.mode = "test" THEN SubRow(rows, ColMin(rows)) ELSE rows

\* C19: positions, feature, labels and raw color of a returned sample have
\* one row per entry of the index list, and row i of each derives from scene
\* point indices[i]: its transformed position, its height in the feature,
\* its rotated normal (or zero when zeroed) in the feature, its label and
\* its unmodified color
C19_RowAlignment ==
  out.mode # "none" =>
    LET scene == loaded[out.scene + 1]
        rows == DOMAIN out.indices
    IN /\ DOMAIN out.p = rows /\ DOMAIN out.f = rows
       /\ DOMAIN out.y = rows /\ DOMAIN out.rgb = rows
       /\ \A i \in rows :
            LET k == out.indices[i] + 1
            IN /\ k \in DOMAIN scene.xyz
               /\ out.p[i] = RowsOf(out)[i]
               /\ out.y[i] = scene.lbl[k]
               /\ out.rgb[i] = scene.col[k]
               /\ out.f[i][4] = out.p[i][3]
               /\ out.color.kind = "plain"
                    => SubSeq(out.f[i], 1, 3) = [j \in 1..3 |-> <<scene.col[k][j], ColorDiv>>]
               /\ cfg.variant = "scannetv2"
                    => NormalsOf(out.f)[i] = IF out.nz THEN <<0, 0, 0>> ELSE out.normT[k]

\* a cropped training sample of the four-point scene: a row dropped by the
\* crop that is not the last, colors and normals left as they are
C19_Witness ==
  /\ out.mode = "train" /\ cfg.variant = "scannetv2" /\ out.pt >= 0
  /\ Len(out.indices) < Len(out.sub) /\ out.indices # Prefix(out.sub, Len(out.indices))
  /\ out.color.kind = "plain" /\ ~out.nz /\ out.rot # 0

====
